---------------------------- MODULE Spec2Model ----------------------------
(***************************************************************************)
(* A model of src/app.py, the ATS resume analyzer: text normalisation and  *)
(* keyword extraction, the memoised synonym lookup, the scoring engine,    *)
(* text extraction, PDF highlighting and the multi-resume ranking loop.    *)
(*                                                                         *)
(* A text is a sequence of characters (one-character strings); a word is a *)
(* text without separators.  Scores are computed as CPython computes them: *)
(* len(matches) / len(jd_kw) is a correctly rounded IEEE-754 binary64      *)
(* quotient, the product with 100 is rounded again, and int() truncates.   *)
(***************************************************************************)
EXTENDS Integers, Sequences, FiniteSets, TLC

VARIABLES
    resume_text,   \* calculate_ats: argument resume_text
    jd_text,       \* calculate_ats: argument jd_text
    score_pc,      \* "input" before calculate_ats has run, "done" after
    ats,           \* calculate_ats: returned ats
    weighted,      \* calculate_ats: returned weighted
    matches,       \* calculate_ats: returned matches
    missing,       \* calculate_ats: returned missing
    last_call,     \* the last call of get_synonyms: its word and whether the cache answered it
    cache,         \* lru_cache of get_synonyms: <<word, result>> pairs, least recently used first
    db_queries     \* word -> number of times wordnet.synsets(word) ran (the body of get_synonyms)

VARIABLES
    files,         \* the uploaded files, in upload order: name, document, stream position
    jd_multi,      \* the job description of the ranking form
    pc,            \* where the "Analyze All Resumes" handler stands
    runs,          \* how many times the button was clicked
    fi,            \* for f in files: the index of f
    txt,           \* text of get_text_from_file / txt of the loop
    page_i,        \* for page in pdf: the index of page
    keywords,      \* highlight_pdf_keywords: the keywords, in iteration order
    kw_i,          \* for kw in keywords: the index of kw
    hl_done,       \* highlight_pdf_keywords: the (page, keyword) pairs gone through, with what was marked
    open_pdfs,     \* parsed PDF documents opened by fitz.open and not closed
    entry_pos,     \* the stream position found by the last call of get_text_from_file or highlight_pdf_keywords
    last_read,     \* the last file.read(): the file, the position it began at, the bytes it returned
    abort_cause,   \* the call whose exception ended the handler
    results,       \* the list results
    pdf_links,     \* the dict pdf_links
    table          \* the ranking table shown by st.dataframe

scorevars == <<resume_text, jd_text, score_pc>>

docvars == <<files, jd_multi, pc, runs, fi, txt, page_i, keywords, kw_i, hl_done,
             open_pdfs, entry_pos, last_read, abort_cause, results, pdf_links, table>>

vars == <<resume_text, jd_text, score_pc, ats, weighted, matches, missing,
          last_call, cache, db_queries, files, jd_multi, pc, runs, fi, txt,
          page_i, keywords, kw_i, hl_done, open_pdfs, entry_pos, last_read,
          abort_cause, results, pdf_links, table>>

(***************************************************************************)
(* Bounds of the model.                                                    *)
(***************************************************************************)
\* longest resume text enumerated character by character
MaxResumeLen == 3
\* longest job description enumerated character by character
MaxJdLen == 4
\* most vocabulary words in a generated resume or job description
MaxVocab == 50
\* most distinct words, besides the probe words, looked up in the cache specification
MaxFreshWords == 500
\* most files uploaded to the ranking form
MaxFiles == 2
\* most clicks on "Analyze All Resumes"
MaxRuns == 2

(***************************************************************************)
(* Characters.                                                             *)
(***************************************************************************)
LowerSeq == <<"a","b","c","d","e","f","g","h","i","j","k","l","m",
              "n","o","p","q","r","s","t","u","v","w","x","y","z">>

UpperSeq == <<"A","B","C","D","E","F","G","H","I","J","K","L","M",
              "N","O","P","Q","R","S","T","U","V","W","X","Y","Z">>

DigitSeq == <<"0","1","2","3","4","5","6","7","8","9">>

Range(s) == {s[i] : i \in DOMAIN s}

Lowercase == Range(LowerSeq)

Uppercase == Range(UpperSeq)

Digits == Range(DigitSeq)

\* the class \s of the regular expressions, as far as the texts of the model go
Whitespace == {" ", "\n"}

\* the class \w of the regular expressions (ASCII part)
WordChars == Lowercase \cup Uppercase \cup Digits \cup {"_"}

\* str.lower() on one character
lower_char(c) ==
    IF c \in Uppercase
    THEN LowerSeq[CHOOSE i \in DOMAIN UpperSeq : UpperSeq[i] = c]
    ELSE c

\* str.lower()
str_lower(text) == [i \in DOMAIN text |-> lower_char(text[i])]

(***************************************************************************)
(* clean_text and extract_keywords.                                        *)
(***************************************************************************)
\* re.sub(r"[^a-z0-9\s]", " ", text)
re_sub_nonalnum(text) ==
    [i \in DOMAIN text |->
        IF text[i] \in Lowercase \cup Digits \cup Whitespace THEN text[i] ELSE " "]

clean_text(text) == re_sub_nonalnum(str_lower(text))

\* re.findall(r'\b\w+\b', text): the maximal runs of word characters, in order.
is_word_char(text, i) == i \in DOMAIN text /\ text[i] \in WordChars

\* \b before position i: a run of word characters starts at i
run_starts(text) == {i \in DOMAIN text : is_word_char(text, i) /\ ~is_word_char(text, i - 1)}

\* \w+ is greedy: the run that starts at i ends before the next other character
run_end(text, i) ==
    CHOOSE j \in i..Len(text) :
        (\A k \in i..j : is_word_char(text, k)) /\ ~is_word_char(text, j + 1)

\* the k-th smallest element of a set of numbers
kth(S, k) == CHOOSE s \in S : Cardinality({t \in S : t <= s}) = k

re_findall_words(text) ==
    LET starts == run_starts(text) IN
    [k \in 1..Cardinality(starts) |->
        SubSeq(text, kth(starts, k), run_end(text, kth(starts, k)))]

stopwords ==
    { <<"a","n","d">>, <<"o","r">>, <<"t","h","e">>, <<"a">>, <<"a","n">>,
      <<"i","n">>, <<"o","n">>, <<"w","i","t","h">>, <<"f","o","r">>,
      <<"t","o">>, <<"o","f">>, <<"i","s">>, <<"a","r","e">> }

extract_keywords(text) ==
    {w \in Range(re_findall_words(clean_text(text))) : w \notin stopwords}

(***************************************************************************)
(* The lexical database behind wordnet.synsets: a miniature lexicon in the *)
(* shape of WordNet.  A synset is the set of its lemma names as the        *)
(* database stores them: mixed case, "_" between the words of a phrase.    *)
(***************************************************************************)
wordnet_synsets(word) ==
    CASE word = <<"a","b">> ->
           { {<<"A","b">>, <<"A","v">>},
             {<<"A","B">>, <<"t","y","p","e","_","A","B">>},
             {<<"a","b","d","o","m","i","n","a","l">>, <<"a","b">>},
             {<<"B","A">>, <<"A","B">>} }
      [] word = <<"b","a">> ->
           { {<<"b","a","r","i","u","m">>, <<"B","a">>},
             {<<"B","A">>, <<"A","B">>} }
      [] word = <<"b">> ->
           { {<<"B">>, <<"b">>},
             {<<"b","a","r","n">>, <<"b">>},
             {<<"t","y","p","e","_","B">>, <<"B">>} }
      [] word = <<"p","y","t","h","o","n">> ->
           { {<<"p","y","t","h","o","n">>}, {<<"P","y","t","h","o","n">>} }
      [] OTHER -> {}

\* str.replace("_", " ")
str_replace_underscore(name) ==
    [i \in DOMAIN name |-> IF name[i] = "_" THEN " " ELSE name[i]]

\* the body of get_synonyms: what runs on a cache miss
get_synonyms_body(word) ==
    { str_lower(str_replace_underscore(name)) :
        name \in UNION wordnet_synsets(word) }

(***************************************************************************)
(* functools.lru_cache(maxsize=500) around get_synonyms.                   *)
(***************************************************************************)
maxsize == 500

cache_keys(c) == {c[i][1] : i \in DOMAIN c}

cache_has(c, word) == \E i \in DOMAIN c : c[i][1] = word

cache_index(c, word) == CHOOSE i \in DOMAIN c : c[i][1] = word

\* entries of c without position k
seq_remove(c, k) == [i \in 1..(Len(c) - 1) |-> IF i < k THEN c[i] ELSE c[i + 1]]

\* the cache after a call get_synonyms(word): a hit moves the entry to the
\* most-recently-used end; a miss appends it, dropping the least recently
\* used entry when the cache is full
cache_after(c, word) ==
    IF cache_has(c, word)
    THEN LET k == cache_index(c, word) IN Append(seq_remove(c, k), c[k])
    ELSE LET entry == <<word, get_synonyms_body(word)>> IN
         IF Len(c) >= maxsize
         THEN Append(seq_remove(c, 1), entry)
         ELSE Append(c, entry)

\* queries_after without the decorator: every call runs the body
queries_after_uncached(c, q, word) ==
    IF word \in DOMAIN q
    THEN [q EXCEPT ![word] = @ + 1]
    ELSE [w \in DOMAIN q \cup {word} |-> IF w = word THEN 1 ELSE q[w]]

\* the database query log after a call get_synonyms(word): only a miss runs the body
queries_after(c, q, word) ==
    IF cache_has(c, word)
    THEN q
    ELSE IF word \in DOMAIN q
         THEN [q EXCEPT ![word] = @ + 1]
         ELSE [w \in DOMAIN q \cup {word} |-> IF w = word THEN 1 ELSE q[w]]

\* the value get_synonyms(word) returns: the cached result on a hit
get_synonyms(c, word) ==
    IF cache_has(c, word)
    THEN c[cache_index(c, word)][2]
    ELSE get_synonyms_body(word)

(***************************************************************************)
(* Binary64 arithmetic of the score: int((len(matches) / len(jd_kw)) * 100)*)
(* A 53-bit significand is a sequence of five 13-bit limbs, least          *)
(* significant first; a float is [sig, exp] with value sig * 2^(exp - 52). *)
(***************************************************************************)
LimbBits == 13

RECURSIVE pow2(_)
pow2(k) == IF k = 0 THEN 1 ELSE 2 * pow2(k - 1)

LimbBase == pow2(LimbBits)

\* carry propagation: the limbs of the number whose digits (possibly >= LimbBase) are x
RECURSIVE limbs_carry(_, _, _, _)
limbs_carry(x, i, c, acc) ==
    IF i > Len(x)
    THEN IF c > 0 THEN Append(acc, c) ELSE acc
    ELSE limbs_carry(x, i + 1, (x[i] + c) \div LimbBase, Append(acc, (x[i] + c) % LimbBase))

RECURSIVE bit_length(_)
bit_length(x) == IF x = 0 THEN 0 ELSE 1 + bit_length(x \div 2)

\* floor(N / 2^s)
limbs_shr(N, s) ==
    LET q == s \div LimbBits
        r == s % LimbBits
        D == SubSeq(N, q + 1, Len(N))
    IN [i \in 1..Len(D) |->
           (D[i] \div pow2(r))
           + ((IF i + 1 <= Len(D) THEN D[i + 1] ELSE 0) % pow2(r)) * pow2(LimbBits - r)]

\* the value of a limb sequence (for values below 2^31)
RECURSIVE limbs_value(_, _)
limbs_value(N, i) == IF i > Len(N) THEN 0 ELSE N[i] + LimbBase * limbs_value(N, i + 1)

\* the significand 2^52
SigOne == <<0, 0, 0, 0, 1>>

\* sig (+ 1 when up): the rounded significand, renormalised when it reaches 2^53
round_significand(sig, up, exp) ==
    LET r == IF up THEN limbs_carry([sig EXCEPT ![1] = @ + 1], 1, 0, <<>>) ELSE sig IN
    IF r[5] = 2 THEN [sig |-> SigOne, exp |-> exp + 1]
    ELSE [sig |-> SubSeq(r, 1, 5), exp |-> exp]

\* least k with m * 2^k >= n, for 0 < m <= n
RECURSIVE norm_shift(_, _, _)
norm_shift(m, n, k) == IF m >= n THEN k ELSE norm_shift(2 * m, n, k + 1)

\* m / n in binary64 for 0 < m <= n, rounded to nearest, ties to even:
\* long division of the fraction, 13 bits at a time
float_div(m, n) ==
    LET k == norm_shift(m, n, 0)
        r0 == m * pow2(k) - n
        d1 == (r0 * LimbBase) \div n
        r1 == (r0 * LimbBase) % n
        d2 == (r1 * LimbBase) \div n
        r2 == (r1 * LimbBase) % n
        d3 == (r2 * LimbBase) \div n
        r3 == (r2 * LimbBase) % n
        d4 == (r3 * LimbBase) \div n
        r4 == (r3 * LimbBase) % n
        up == 2 * r4 > n \/ (2 * r4 = n /\ d4 % 2 = 1)
    IN round_significand(<<d4, d3, d2, d1, 1>>, up, 0 - k)

\* x * 100 in binary64, rounded to nearest, ties to even
float_mul100(x) ==
    LET P == limbs_carry([i \in 1..5 |-> x.sig[i] * 100], 1, 0, <<>>)
        d == LimbBits * (Len(P) - 1) + bit_length(P[Len(P)]) - 53
        low == P[1] % pow2(d)
        hi == limbs_shr(P, d)
        half == pow2(d - 1)
        up == low > half \/ (low = half /\ hi[1] % 2 = 1)
    IN round_significand(hi, up, x.exp + d)

\* int(x) for a binary64 x with 0 < x < 2^31: the bits above the binary point
float_int(x) ==
    IF x.exp < 0 THEN 0 ELSE limbs_value(limbs_shr(x.sig, 52 - x.exp), 1)

\* int((nmatch / njd) * 100) if jd_kw else 0
ats_score(nmatch, njd) ==
    IF njd = 0 THEN 0
    ELSE IF nmatch = 0 THEN 0
    ELSE float_int(float_mul100(float_div(nmatch, njd)))

(***************************************************************************)
(* calculate_ats.                                                          *)
(***************************************************************************)
priority ==
    { <<"p","y","t","h","o","n">>, <<"j","a","v","a">>, <<"s","q","l">>,
      <<"a","w","s">>, <<"r","e","a","c","t">>, <<"n","o","d","e">>,
      <<"m","o","n","g","o","d","b">>, <<"d","o","c","k","e","r">> }

Min(a, b) == IF a <= b THEN a ELSE b

\* match_step with "if" in place of "elif": a direct match goes on to the synonym test
match_step_fallthrough(st, word, resume_kw) ==
    LET st1 == IF word \in resume_kw THEN [st EXCEPT !.matches = @ \cup {word}] ELSE st
        syns == get_synonyms(st.cache, word)
        st2 == [st1 EXCEPT !.cache = cache_after(st.cache, word),
                           !.queries = queries_after(st.cache, st.queries, word),
                           !.last = [word |-> word, hit |-> cache_has(st.cache, word)]]
    IN IF syns \cap resume_kw # {}
       THEN [st2 EXCEPT !.matches = @ \cup {word}]
       ELSE [st2 EXCEPT !.missing = @ \cup {word}]

\* match_step without the synonym branch
match_step_direct_only(st, word, resume_kw) ==
    IF word \in resume_kw
    THEN [st EXCEPT !.matches = @ \cup {word}]
    ELSE [st EXCEPT !.missing = @ \cup {word}]

\* one pass of the loop body for `word`; st carries matches, missing and the cache
match_step(st, word, resume_kw) ==
    IF word \in resume_kw
    THEN [st EXCEPT !.matches = @ \cup {word}]
    ELSE LET syns == get_synonyms(st.cache, word)
             st2 == [st EXCEPT !.cache = cache_after(st.cache, word),
                               !.queries = queries_after(st.cache, st.queries, word),
                               !.last = [word |-> word, hit |-> cache_has(st.cache, word)]]
         IN IF syns \cap resume_kw # {}
            THEN [st2 EXCEPT !.matches = @ \cup {word}]
            ELSE [st2 EXCEPT !.missing = @ \cup {word}]

\* for word in jd_kw, in the iteration order `order`: positions lo..hi of it
RECURSIVE match_loop(_, _, _, _, _)
match_loop(st, order, lo, hi, resume_kw) ==
    IF lo > hi THEN st
    ELSE IF lo = hi THEN match_step(st, order[lo], resume_kw)
    ELSE LET mid == (lo + hi) \div 2 IN
         \* the state after positions lo..mid is computed before mid+1..hi is entered
         CHOOSE out \in { match_loop(half, order, mid + 1, hi, resume_kw) :
                             half \in {match_loop(st, order, lo, mid, resume_kw)} } : TRUE

\* weighted_score without the cap
weighted_score_uncapped(a, m) == a + Cardinality(m \cap priority) * 2

\* min(ats + len(matches.intersection(priority)) * 2, 100)
weighted_score(a, m) == Min(a + Cardinality(m \cap priority) * 2, 100)

\* c, q, l: the synonym cache, the database query log and the last lookup before the call
calculate_ats(r_text, j_text, order, c, q, l) ==
    LET resume_kw == extract_keywords(r_text)
        jd_kw == extract_keywords(j_text)
        st == match_loop([matches |-> {}, missing |-> {}, cache |-> c, queries |-> q,
                          last |-> l],
                         order, 1, Len(order), resume_kw)
        a == ats_score(Cardinality(st.matches), Cardinality(jd_kw))
    IN [ats |-> a, weighted |-> weighted_score(a, st.matches),
        matches |-> st.matches, missing |-> st.missing,
        cache |-> st.cache, queries |-> st.queries, last |-> st.last]

(***************************************************************************)
(* Inputs of the scoring specification.                                    *)
(***************************************************************************)
\* the characters of the texts enumerated exhaustively
Alphabet == {"a", "b", "B", " ", "-"}

ShortTexts(n) == UNION {[1..k -> Alphabet] : k \in 0..n}

RECURSIVE decimal(_)
decimal(n) == IF n < 10 THEN <<DigitSeq[n + 1]>>
              ELSE decimal(n \div 10) \o <<DigitSeq[(n % 10) + 1]>>

PriorityList ==
    << <<"p","y","t","h","o","n">>, <<"j","a","v","a">>, <<"s","q","l">>,
       <<"a","w","s">>, <<"r","e","a","c","t">>, <<"n","o","d","e">>,
       <<"m","o","n","g","o","d","b">>, <<"d","o","c","k","e","r">> >>

\* the i-th word of the vocabulary: the priority terms, then k9, k10, ...
VocabWord(i) == IF i <= Len(PriorityList) THEN PriorityList[i] ELSE <<"k">> \o decimal(i)

\* "python java ... " : the first n vocabulary words, separated by blanks
RECURSIVE JoinWords(_, _)
JoinWords(lo, hi) ==
    IF lo > hi THEN <<>>
    ELSE IF lo = hi THEN VocabWord(lo)
    ELSE LET mid == (lo + hi) \div 2 IN
         JoinWords(lo, mid) \o <<" ">> \o JoinWords(mid + 1, hi)

VocabText(n) == JoinWords(1, n)

ScoreInputs ==
    (ShortTexts(MaxResumeLen) \X ShortTexts(MaxJdLen))
    \cup {<<VocabText(in[1]), VocabText(in[2])>> :
              in \in {p \in (0..MaxVocab) \X (0..MaxVocab) : p[1] <= p[2]}}

seq_reverse(s) == [i \in 1..Len(s) |-> s[Len(s) + 1 - i]]

\* the keywords of a text in the order of their first occurrence
first_occurrence_order(text) ==
    LET toks == re_findall_words(clean_text(text))
        firsts == {k \in DOMAIN toks :
                      /\ toks[k] \notin stopwords
                      /\ \A j \in 1..(k - 1) : toks[j] # toks[k]}
    IN [n \in 1..Cardinality(firsts) |-> toks[kth(firsts, n)]]

\* the iteration orders of the Python set jd_kw the model explores: the order of
\* first occurrence and its reverse (every order, for a set of up to two words)
IterationOrders(text) ==
    {first_occurrence_order(text), seq_reverse(first_occurrence_order(text))}

EmptyQueries == [w \in {} |-> 0]

NoCall == [word |-> <<>>, hit |-> FALSE]

NoRead == [file |-> 0, from |-> 0, n |-> 0]

\* the values of the ranking handler's variables while it is not running
DocsIdle ==
    /\ files = <<>> /\ jd_multi = <<>> /\ pc = "off" /\ runs = 0 /\ fi = 0
    /\ txt = <<>> /\ page_i = 0 /\ keywords = <<>> /\ kw_i = 0 /\ hl_done = {}
    /\ open_pdfs = 0 /\ entry_pos = 0 /\ last_read = NoRead /\ abort_cause = "none"
    /\ results = <<>> /\ pdf_links = {} /\ table = <<>>

InitScore ==
    /\ \E in \in ScoreInputs : resume_text = in[1] /\ jd_text = in[2]
    /\ score_pc = "input"
    /\ ats = 0 /\ weighted = 0 /\ matches = {} /\ missing = {}
    /\ cache = <<>>
    /\ db_queries = EmptyQueries
    /\ last_call = NoCall
    /\ DocsIdle

\* ats, weighted, matches, missing = calculate_ats(text, jd)
CalculateAts ==
    /\ score_pc = "input"
    /\ \E order \in IterationOrders(jd_text) :
       \E res \in {calculate_ats(resume_text, jd_text, order, cache, db_queries, last_call)} :
          /\ ats' = res.ats
          /\ weighted' = res.weighted
          /\ matches' = res.matches
          /\ missing' = res.missing
          /\ cache' = res.cache
          /\ db_queries' = res.queries
          /\ last_call' = res.last
    /\ score_pc' = "done"
    /\ UNCHANGED <<resume_text, jd_text, docvars>>

NextScore == CalculateAts

SpecScore == InitScore /\ [][NextScore]_vars

(***************************************************************************)
(* The synonym cache on its own: a sequence of get_synonyms calls.         *)
(***************************************************************************)
\* words looked up again and again
ProbeWords == { <<"a","b">> }

\* the words a next call may ask for: a probe word, or the first vocabulary
\* word (k9, k10, ...) not looked up so far
FreshIndex(q) == Len(PriorityList) + Cardinality(DOMAIN q \ ProbeWords) + 1

CallWords(q) ==
    ProbeWords \cup
    (IF Cardinality(DOMAIN q \ ProbeWords) < MaxFreshWords
     THEN {VocabWord(FreshIndex(q))} ELSE {})

InitCache ==
    /\ resume_text = <<>> /\ jd_text = <<>>
    /\ score_pc = "cache"
    /\ ats = 0 /\ weighted = 0 /\ matches = {} /\ missing = {}
    /\ cache = <<>>
    /\ db_queries = EmptyQueries
    /\ last_call = NoCall
    /\ DocsIdle

\* one call get_synonyms(word)
GetSynonyms ==
    /\ score_pc = "cache"
    /\ \E word \in CallWords(db_queries) :
          /\ last_call' = [word |-> word, hit |-> cache_has(cache, word)]
          /\ cache' = cache_after(cache, word)
          /\ db_queries' = queries_after(cache, db_queries, word)
    /\ UNCHANGED <<scorevars, ats, weighted, matches, missing, docvars>>

NextCache == GetSynonyms

SpecCache == InitCache /\ [][NextCache]_vars

(***************************************************************************)
(* Uploaded files.  A file is its name, its document (the size of its      *)
(* bytes; the texts of its pages, or its body as one page) and the         *)
(* position of its stream.                                                 *)
(***************************************************************************)
Uploads ==
    { [name |-> <<"a",".","p","d","f">>, size |-> 2,
       pages |-> << <<"a","b">>, <<"B"," ","b","a">> >>],
      [name |-> <<"b",".","P","D","F">>, size |-> 1,
       pages |-> << <<"b","a">> >>],
      [name |-> <<"c",".","d","o","c","x">>, size |-> 2,
       pages |-> << <<"b">> >>],
      [name |-> <<"d",".","t","x","t">>, size |-> 1,
       pages |-> << <<"a","b">> >>] }

\* the upload lists: up to MaxFiles different files, every stream at its start
FileLists ==
    UNION { {fs \in [1..n -> {[name |-> u.name, size |-> u.size, pages |-> u.pages,
                               pos |-> 0] : u \in Uploads}] :
                \A i, j \in 1..n : i # j => fs[i].name # fs[j].name}
            : n \in 0..MaxFiles }

JdChoices == { <<" ">>, <<"a","b"," ","b">> }

\* file.seek(offset)
file_seek(f, offset) == [f EXCEPT !.pos = offset]

\* len(file.read()): the bytes from the position to the end
file_read_len(f) == f.size - f.pos

\* the stream after file.read()
file_after_read(f) == [f EXCEPT !.pos = f.size]

\* file.name.split(".")[-1].lower()
file_type_of(name) ==
    LET dots == {i \in DOMAIN name : name[i] = "."}
        last == IF dots = {} THEN 0 ELSE CHOOSE i \in dots : \A j \in dots : j <= i
    IN str_lower(SubSeq(name, last + 1, Len(name)))

\* f.name.endswith(".pdf")
name_endswith_pdf(name) ==
    Len(name) >= 4 /\ SubSeq(name, Len(name) - 3, Len(name)) = <<".","p","d","f">>

\* str.strip()
str_strip(text) ==
    LET solid == {i \in DOMAIN text : text[i] \notin Whitespace} IN
    IF solid = {} THEN <<>>
    ELSE SubSeq(text, CHOOSE i \in solid : \A j \in solid : i <= j,
                      CHOOSE i \in solid : \A j \in solid : j <= i)

\* fitz.open(stream=data, filetype="pdf") on the n bytes read from f: it parses
\* (TRUE) or raises (FALSE); data that are not the whole document never parse
fitz_open_outcomes(f, n) == IF n = f.size THEN BOOLEAN ELSE {FALSE}

(***************************************************************************)
(* get_text_from_file.                                                     *)
(***************************************************************************)
\* get_text_from_file without the seek before the branches
get_text_no_seek(f) == f

\* file.seek(0) before the branches
get_text_seek_start(f) == file_seek(f, 0)

\* file.seek(0) before the return
get_text_seek_end(f) == file_seek(f, 0)

\* get_text_branch with "else" in place of "elif file_type == docx"
get_text_branch_else_docx(file_type) ==
    IF file_type = <<"p","d","f">> THEN "gt_open" ELSE "gt_docx"

\* if file_type == "pdf": ... elif file_type == "docx": ... (else: nothing)
get_text_branch(file_type) ==
    IF file_type = <<"p","d","f">> THEN "gt_open"
    ELSE IF file_type = <<"d","o","c","x">> THEN "gt_docx"
    ELSE "gt_return"

\* the handler ends with the exception of `cause`
Abort(cause) == pc' = "aborted" /\ abort_cause' = cause

\* text = ""; file_type = ...; file.seek(0)
GetTextEnter ==
    /\ pc = "get_text"
    /\ txt' = <<>>
    /\ files' = [files EXCEPT ![fi] = get_text_seek_start(@)]
    /\ pc' = get_text_branch(file_type_of(files[fi].name))
    /\ UNCHANGED <<scorevars, ats, weighted, matches, missing, last_call, cache,
                   db_queries, jd_multi, runs, fi, page_i, keywords, kw_i, hl_done,
                   open_pdfs, last_read, abort_cause, results, pdf_links, table>>
    /\ entry_pos' = files[fi].pos

\* pdf = fitz.open(stream=file.read(), filetype="pdf")
GetTextOpen ==
    /\ pc = "gt_open"
    /\ LET f == files[fi]
           n == file_read_len(f)
       IN /\ last_read' = [file |-> fi, from |-> f.pos, n |-> n]
          /\ files' = [files EXCEPT ![fi] = file_after_read(f)]
          /\ \E ok \in fitz_open_outcomes(f, n) :
                IF ok
                THEN /\ open_pdfs' = open_pdfs + 1
                     /\ page_i' = 1
                     /\ pc' = "gt_pages"
                     /\ UNCHANGED abort_cause
                ELSE /\ Abort("get_text_from_file: fitz.open")
                     /\ UNCHANGED <<open_pdfs, page_i>>
    /\ UNCHANGED <<scorevars, entry_pos, ats, weighted, matches, missing, last_call, cache,
                   db_queries, jd_multi, runs, fi, txt, keywords, kw_i, hl_done,
                   results, pdf_links, table>>

\* for page in pdf: text += page.get_text() + "\n"
GetTextPage ==
    /\ pc = "gt_pages"
    /\ page_i <= Len(files[fi].pages)
    /\ \E ok \in BOOLEAN :
          IF ok
          THEN /\ txt' = txt \o files[fi].pages[page_i] \o <<"\n">>
               /\ page_i' = page_i + 1
               /\ UNCHANGED <<pc, abort_cause>>
          ELSE /\ Abort("get_text_from_file: page.get_text")
               /\ UNCHANGED <<txt, page_i>>
    /\ UNCHANGED <<scorevars, entry_pos, ats, weighted, matches, missing, last_call, cache,
                   db_queries, files, jd_multi, runs, fi, keywords, kw_i, hl_done,
                   open_pdfs, last_read, results, pdf_links, table>>

\* pdf.close(), after the last page
GetTextClose ==
    /\ pc = "gt_pages"
    /\ page_i > Len(files[fi].pages)
    /\ open_pdfs' = open_pdfs - 1
    /\ pc' = "gt_return"
    /\ UNCHANGED <<scorevars, entry_pos, ats, weighted, matches, missing, last_call, cache,
                   db_queries, files, jd_multi, runs, fi, txt, page_i, keywords, kw_i,
                   hl_done, last_read, abort_cause, results, pdf_links, table>>

\* text = docx2txt.process(file): the library reads the archive through the
\* stream, seeking as it needs, and leaves the position wherever it stopped
GetTextDocx ==
    /\ pc = "gt_docx"
    /\ \E p \in 0..files[fi].size :
          files' = [files EXCEPT ![fi] = file_seek(@, p)]
    /\ \E ok \in BOOLEAN :
          IF ok
          THEN /\ txt' = files[fi].pages[1]
               /\ pc' = "gt_return"
               /\ UNCHANGED abort_cause
          ELSE /\ Abort("get_text_from_file: docx2txt.process")
               /\ UNCHANGED txt
    /\ UNCHANGED <<scorevars, entry_pos, ats, weighted, matches, missing, last_call, cache,
                   db_queries, jd_multi, runs, fi, page_i, keywords, kw_i, hl_done,
                   open_pdfs, last_read, results, pdf_links, table>>

\* file.seek(0); return text
GetTextReturn ==
    /\ pc = "gt_return"
    /\ files' = [files EXCEPT ![fi] = get_text_seek_end(@)]
    /\ pc' = "score"
    /\ UNCHANGED <<scorevars, entry_pos, ats, weighted, matches, missing, last_call, cache,
                   db_queries, jd_multi, runs, fi, txt, page_i, keywords, kw_i,
                   hl_done, open_pdfs, last_read, abort_cause, results, pdf_links,
                   table>>

(***************************************************************************)
(* highlight_pdf_keywords.                                                 *)
(***************************************************************************)
\* file.seek(0) at the start
highlight_seek_start(f) == file_seek(f, 0)

\* the elements of seq that are in S, in the order of seq
seq_filter(seq, S) ==
    LET idx == {i \in DOMAIN seq : seq[i] \in S} IN
    [n \in 1..Cardinality(idx) |-> seq[kth(idx, n)]]

\* the iteration orders of the set `keywords` the model explores
KeywordOrders(m, text) ==
    {seq_filter(o, m) : o \in IterationOrders(text)}

\* what one pass of the try block marked: both searches ran ("both"), the exact
\* search ran and the case-insensitive scan raised ("exact"), or the exact
\* search raised ("none")
PairOutcomes == {"both", "exact", "none"}

\* the try block without its except clause: the exception leaves the function
except_highlight_reraise ==
    [pc |-> "aborted", abort_cause |-> "highlight_pdf_keywords: try block"]

\* except Exception as e: print(...): the loop goes on
except_highlight_error == [pc |-> "hl_pairs", abort_cause |-> "none"]

\* for page in pdf: for kw in keywords: both loops are over
hl_finished == Len(keywords) = 0 \/ page_i > Len(files[fi].pages)

\* file.seek(0); pdf = fitz.open(stream=file.read(), filetype="pdf")
HighlightOpen ==
    /\ pc = "highlight"
    /\ LET f == highlight_seek_start(files[fi])
           n == file_read_len(f)
       IN /\ last_read' = [file |-> fi, from |-> f.pos, n |-> n]
          /\ files' = [files EXCEPT ![fi] = file_after_read(f)]
          /\ \E ok \in fitz_open_outcomes(f, n) :
                IF ok
                THEN /\ open_pdfs' = open_pdfs + 1
                     /\ page_i' = 1
                     /\ kw_i' = 1
                     /\ hl_done' = {}
                     /\ \E ks \in KeywordOrders(matches, jd_multi) : keywords' = ks
                     /\ pc' = "hl_pairs"
                     /\ UNCHANGED abort_cause
                ELSE /\ Abort("highlight_pdf_keywords: fitz.open")
                     /\ UNCHANGED <<open_pdfs, page_i, kw_i, hl_done, keywords>>
    /\ entry_pos' = files[fi].pos
    /\ UNCHANGED <<scorevars, ats, weighted, matches, missing, last_call, cache,
                   db_queries, jd_multi, runs, fi, txt, results, pdf_links, table>>

\* one pass of the body of the two loops: the try block for (page, kw)
HighlightPair ==
    /\ pc = "hl_pairs"
    /\ ~hl_finished
    /\ \E outcome \in PairOutcomes :
          /\ hl_done' = hl_done \cup
                 {[page |-> page_i, kw |-> keywords[kw_i], marked |-> outcome]}
          /\ IF outcome = "both"
             THEN UNCHANGED <<pc, abort_cause>>
             ELSE /\ pc' = except_highlight_error.pc
                  /\ abort_cause' =
                        IF except_highlight_error.pc = "aborted"
                        THEN except_highlight_error.abort_cause ELSE abort_cause
    /\ IF kw_i < Len(keywords)
       THEN kw_i' = kw_i + 1 /\ UNCHANGED page_i
       ELSE kw_i' = 1 /\ page_i' = page_i + 1
    /\ UNCHANGED <<scorevars, entry_pos, ats, weighted, matches, missing, last_call, cache,
                   db_queries, files, jd_multi, runs, fi, txt, keywords, open_pdfs,
                   last_read, results, pdf_links, table>>

\* pdf_bytes = pdf.write(); pdf.close(); return pdf_bytes;
\* and the caller's pdf_links[f.name] = pdf_bytes
HighlightWrite ==
    /\ pc = "hl_pairs"
    /\ hl_finished
    /\ \E ok \in BOOLEAN :
          IF ok
          THEN /\ open_pdfs' = open_pdfs - 1
               /\ pdf_links' = {l \in pdf_links : l[1] # files[fi].name}
                               \cup {<<files[fi].name, hl_done>>}
               /\ pc' = "append"
               /\ UNCHANGED abort_cause
          ELSE /\ Abort("highlight_pdf_keywords: pdf.write")
               /\ UNCHANGED <<open_pdfs, pdf_links>>
    /\ UNCHANGED <<scorevars, entry_pos, ats, weighted, matches, missing, last_call, cache,
                   db_queries, files, jd_multi, runs, fi, txt, page_i, keywords, kw_i,
                   hl_done, last_read, results, table>>

(***************************************************************************)
(* The "Analyze All Resumes" handler.                                      *)
(***************************************************************************)
\* the position of row r after sort_values("Weighted Score", ascending=False)
row_rank(rows, r) ==
    1 + Cardinality({q \in DOMAIN rows :
                        \/ rows[q].weighted > rows[r].weighted
                        \/ (rows[q].weighted = rows[r].weighted /\ q < r)})

sort_rows(rows) ==
    [k \in DOMAIN rows |-> rows[CHOOSE r \in DOMAIN rows : row_rank(rows, r) = k]]

InitDocs ==
    /\ resume_text = <<>> /\ jd_text = <<>> /\ score_pc = "docs"
    /\ ats = 0 /\ weighted = 0 /\ matches = {} /\ missing = {}
    /\ cache = <<>> /\ db_queries = EmptyQueries /\ last_call = NoCall
    /\ files \in FileLists
    /\ jd_multi \in JdChoices
    /\ pc = "idle" /\ runs = 0 /\ fi = 0
    /\ txt = <<>> /\ page_i = 0 /\ keywords = <<>> /\ kw_i = 0 /\ hl_done = {}
    /\ open_pdfs = 0 /\ entry_pos = 0 /\ last_read = NoRead /\ abort_cause = "none"
    /\ results = <<>> /\ pdf_links = {} /\ table = <<>>

\* if st.button(...): if files and jd_multi.strip(): results = []; pdf_links = {}
ClickAnalyzeAll ==
    /\ pc \in {"idle", "done", "aborted"}
    /\ runs < MaxRuns
    /\ runs' = runs + 1
    /\ table' = <<>>
    /\ abort_cause' = "none"
    /\ IF files # <<>> /\ str_strip(jd_multi) # <<>>
       THEN /\ results' = <<>>
            /\ pdf_links' = {}
            /\ fi' = 1
            /\ pc' = "get_text"
       ELSE /\ pc' = "idle"
            /\ UNCHANGED <<results, pdf_links, fi>>
    /\ UNCHANGED <<scorevars, entry_pos, ats, weighted, matches, missing, last_call, cache,
                   db_queries, files, jd_multi, txt, page_i, keywords, kw_i, hl_done,
                   open_pdfs, last_read>>

\* ats, weighted, matches, _ = calculate_ats(txt, jd_multi); if f.name.endswith(".pdf")
ScoreFile ==
    /\ pc = "score"
    /\ \E order \in IterationOrders(jd_multi) :
       \E res \in {calculate_ats(txt, jd_multi, order, cache, db_queries, last_call)} :
          /\ ats' = res.ats
          /\ weighted' = res.weighted
          /\ matches' = res.matches
          /\ missing' = res.missing
          /\ cache' = res.cache
          /\ db_queries' = res.queries
          /\ last_call' = res.last
    /\ pc' = IF name_endswith_pdf(files[fi].name) THEN "highlight" ELSE "append"
    /\ UNCHANGED <<scorevars, entry_pos, files, jd_multi, runs, fi, txt, page_i, keywords, kw_i,
                   hl_done, open_pdfs, last_read, abort_cause, results, pdf_links,
                   table>>

\* results.append({...}), and the next f
AppendRow ==
    /\ pc = "append"
    /\ results' = Append(results, [resume |-> files[fi].name, ats |-> ats,
                                   weighted |-> weighted, matched |-> matches])
    /\ IF fi < Len(files)
       THEN fi' = fi + 1 /\ pc' = "get_text"
       ELSE pc' = "render" /\ UNCHANGED fi
    /\ UNCHANGED <<scorevars, entry_pos, ats, weighted, matches, missing, last_call, cache,
                   db_queries, files, jd_multi, runs, txt, page_i, keywords, kw_i,
                   hl_done, open_pdfs, last_read, abort_cause, pdf_links, table>>

\* df = pd.DataFrame(results).sort_values(...); st.dataframe(df); chart and links
Render ==
    /\ pc = "render"
    /\ table' = sort_rows(results)
    /\ pc' = "done"
    /\ UNCHANGED <<scorevars, entry_pos, ats, weighted, matches, missing, last_call, cache,
                   db_queries, files, jd_multi, runs, fi, txt, page_i, keywords, kw_i,
                   hl_done, open_pdfs, last_read, abort_cause, results, pdf_links>>

NextDocs ==
    \/ ClickAnalyzeAll
    \/ GetTextEnter
    \/ GetTextOpen
    \/ GetTextPage
    \/ GetTextClose
    \/ GetTextDocx
    \/ GetTextReturn
    \/ ScoreFile
    \/ HighlightOpen
    \/ HighlightPair
    \/ HighlightWrite
    \/ AppendRow
    \/ Render

SpecDocs == InitDocs /\ [][NextDocs]_vars

(***************************************************************************)
(* Properties.                                                             *)
(***************************************************************************)
ResumeKw == extract_keywords(resume_text)

JdKw == extract_keywords(jd_text)

\* C1: after calculate_ats, matches and missing partition the job-description
\* keyword set: their union is extract_keywords(jd_text) and they are disjoint.
C1_MatchedMissingPartition ==
    score_pc = "done" =>
        /\ matches \cup missing = JdKw
        /\ matches \cap missing = {}

\* a result with keywords on both sides of the partition
C1_Witness ==
    score_pc = "done" /\ matches # {} /\ missing # {}

\* C2: after calculate_ats, 0 <= ats <= 100 and ats <= weighted <= 100.
C2_ScoreRanges ==
    score_pc = "done" =>
        /\ 0 <= ats /\ ats <= 100
        /\ ats <= weighted /\ weighted <= 100

\* a result whose priority bonus is cut by the cap
C2_Witness ==
    /\ score_pc = "done"
    /\ 0 < ats /\ ats < weighted /\ weighted = 100
    /\ ats + 2 * Cardinality(matches \cap priority) > 100

\* the synonym-aware match of a job-description keyword against the resume keywords
IsMatch(w, rk) == w \in rk \/ get_synonyms_body(w) \cap rk # {}

\* C3: a job-description keyword is in matches exactly when it is a resume
\* keyword or one of its synonyms is, and in missing otherwise; with no resume
\* keyword, every job-description keyword is missing.
C3_MatchedIffDirectOrSynonym ==
    score_pc = "done" =>
        \A rk \in {ResumeKw} : \A jk \in {JdKw} :
            /\ \A w \in jk : /\ w \in matches <=> IsMatch(w, rk)
                             /\ w \in missing <=> ~IsMatch(w, rk)
            /\ rk = {} => missing = jk

\* a keyword matched through a synonym only, beside a missing one
C3_Witness ==
    /\ score_pc = "done"
    /\ \E rk \in {ResumeKw} : \E w \in matches : w \notin rk
    /\ missing # {}

\* C4: ats is floor(100 * |matches| / |jd_kw|) in exact integer arithmetic when
\* jd_kw is not empty, and with jd_kw empty ats = weighted = 0 and matches =
\* missing = {}.
C4_AtsIsExactFloor ==
    score_pc = "done" =>
        /\ JdKw # {} => ats = (100 * Cardinality(matches)) \div Cardinality(JdKw)
        /\ JdKw = {} => ats = 0 /\ weighted = 0 /\ matches = {} /\ missing = {}

Supported == { <<"p","d","f">>, <<"d","o","c","x">> }

\* the file of the current loop pass has an extension other than pdf and docx
UnsupportedFile == fi \in DOMAIN files /\ file_type_of(files[fi].name) \notin Supported

\* C6 (as stated): get_text_from_file returns a text only for pdf and docx; for
\* any other extension it ends with an error.
C6_UnsupportedFormatFails ==
    (fi \in DOMAIN files /\ pc = "score") => ~UnsupportedFile

\* C6 (amended): for an extension other than pdf and docx get_text_from_file
\* raises nothing and parses nothing: it returns the empty text with the
\* stream at its start.
C6_UnsupportedFormatReturnsEmpty ==
    UnsupportedFile =>
        /\ pc \notin {"gt_open", "gt_pages", "gt_docx", "aborted"}
        /\ pc = "score" => txt = <<>> /\ files[fi].pos = 0

\* get_text_from_file has returned for a file that is neither pdf nor docx
C6_Witness ==
    UnsupportedFile /\ pc = "score" /\ txt = <<>>

\* C7: when the handler has ended, every file but one that failed has a row
\* in the ranking table, wherever the failing file stood in the upload order.
C7_BatchSurvivesFailure ==
    (pc \in {"done", "aborted"}) =>
        \A k \in DOMAIN files :
            \/ pc = "aborted" /\ k = fi
            \/ \E r \in DOMAIN table : table[r].resume = files[k].name

\* the (page, keyword) pairs highlight_pdf_keywords has to go through
AllPairs == (DOMAIN files[fi].pages) \X Range(keywords)

AttemptedPairs == {<<d.page, d.kw>> : d \in hl_done}

\* C8: an error in the try block of one (page, keyword) pair never leaves
\* highlight_pdf_keywords: every pair is still gone through, and the function
\* writes the document and returns it.
C8_HighlightErrorsContained ==
    /\ abort_cause \in {"none", "get_text_from_file: fitz.open",
                        "get_text_from_file: page.get_text",
                        "get_text_from_file: docx2txt.process",
                        "highlight_pdf_keywords: fitz.open",
                        "highlight_pdf_keywords: pdf.write"}
    /\ (\/ pc = "hl_pairs" /\ hl_finished
        \/ pc = "append" /\ name_endswith_pdf(files[fi].name)
        \/ pc = "aborted" /\ abort_cause = "highlight_pdf_keywords: pdf.write")
       => AttemptedPairs = AllPairs
    /\ (pc = "append" /\ name_endswith_pdf(files[fi].name))
       => <<files[fi].name, hl_done>> \in pdf_links

\* highlight_pdf_keywords has returned although the first pair raised, and the
\* pairs after it, on the same page and on the next, were marked
C8_Witness ==
    /\ pc = "append"
    /\ name_endswith_pdf(files[fi].name)
    /\ Len(keywords) = 2
    /\ [page |-> 1, kw |-> keywords[1], marked |-> "none"] \in hl_done
    /\ [page |-> 1, kw |-> keywords[2], marked |-> "both"] \in hl_done
    /\ [page |-> 2, kw |-> keywords[1], marked |-> "both"] \in hl_done
    /\ <<files[fi].name, hl_done>> \in pdf_links

\* C9: outside get_text_from_file and highlight_pdf_keywords no parsed PDF is
\* open: each function has closed its handle on every path by which it left.
C9_HandlesClosedOnExit ==
    pc \notin {"gt_pages", "hl_pairs"} => open_pdfs = 0

\* C10: get_text_from_file returns with the stream at its start, and every
\* file.read() of the two functions begins at the start and returns the whole
\* document, wherever the call before left the stream.
C10_StreamRewound ==
    /\ (fi \in DOMAIN files /\ pc = "score") => files[fi].pos = 0
    /\ last_read.file # 0 =>
          /\ last_read.from = 0
          /\ last_read.n = files[last_read.file].size

\* get_text_from_file found the stream consumed and still read the whole document
C10_Witness ==
    /\ pc = "gt_pages"
    /\ entry_pos > 0
    /\ last_read.file = fi
    /\ last_read.n = files[fi].size

=============================================================================
